---- MODULE Spec2Model ----
(***************************************************************************)
(* PyPan: the supersonic domain-of-dependence (DoD) search of              *)
(* pypan/supersonic_solver.py and the vortex ring solver of                *)
(* pypan/solvers.py.                                                       *)
(*                                                                         *)
(* Real numbers are exact rationals <<num, den>>; vertices, normals and    *)
(* influence vectors are integer 3-vectors.  Python indices 0..N-1 are the *)
(* indices 1..N here.                                                      *)
(***************************************************************************)
EXTENDS Integers, Sequences, FiniteSets, TLC

(***************************************************************************)
(* Bounds of the model.                                                    *)
(***************************************************************************)
\* vertex coordinates: x in 0..MaxX
MaxX == 2
\* number of set_condition calls made on one SupersonicSolver
MaxCalls == 2

(***************************************************************************)
(* Exact arithmetic.                                                       *)
(***************************************************************************)
Abs(x) == IF x < 0 THEN -x ELSE x

RECURSIVE Gcd(_, _)
Gcd(a, b) == IF b = 0 THEN a ELSE Gcd(b, a % b)

\* the rational n/d in lowest terms with a positive denominator
Rat(n, d) ==
    LET g == Gcd(Abs(n), Abs(d))
        s == IF d < 0 THEN -1 ELSE 1
    IN  <<(s * n) \div g, (s * d) \div g>>

RInt(n) == <<n, 1>>
RAdd(a, b) == Rat(a[1] * b[2] + b[1] * a[2], a[2] * b[2])
RNeg(a) == <<-a[1], a[2]>>
RSub(a, b) == RAdd(a, RNeg(b))
RMul(a, b) == Rat(a[1] * b[1], a[2] * b[2])
RDiv(a, b) == Rat(a[1] * b[2], a[2] * b[1])
RGeq(a, b) == a[1] * b[2] >= b[1] * a[2]
RZero == RInt(0)
ROne == RInt(1)

\* pp_math.inner / vec_inner on 3-vectors: the sum of the products
inner(a, b) == a[1] * b[1] + a[2] * b[2] + a[3] * b[3]
VSub(a, b) == <<a[1] - b[1], a[2] - b[2], a[3] - b[3]>>
VScale(k, a) == <<k * a[1], k * a[2], k * a[3]>>

\* np.cos / np.sin of an angle in degrees, at the multiples of 90 the model uses
Cos(deg) == CASE deg = 0 -> 1 [] deg = 90 -> 0 [] deg = 180 -> -1 [] OTHER -> 0
Sin(deg) == CASE deg = 0 -> 0 [] deg = 90 -> 1 [] deg = 180 -> 0 [] OTHER -> -1

(***************************************************************************)
(* SupersonicSolver: inputs.                                               *)
(***************************************************************************)
\* self._N_vert: the mesh of the model has three vertices
N_vert == 3
Verts == 1..N_vert

\* the vertices lie in the plane z = 0, in two rows y = 0 and y = 1
Points == {<<x, y, 0>> : x \in 0..MaxX, y \in {0, 1}}

\* kwargs['M'] (all > 1), kwargs['alpha'], kwargs['beta']
Machs == {<<5, 4>>, <<8, 5>>}
Alphas == {0, 180}
Betas == {0, 90}

Perms == {p \in [Verts -> Verts] : \A a, b \in Verts : a # b => p[a] # p[b]}

VARIABLES
    vertices,                   \* mesh.vertices
    dod_array,                  \* mesh.vertex_objects[v].dod_array
    dod_list,                   \* mesh.vertex_objects[v].dod_list
    dod_is_calculated,          \* self._dod_is_calculated
    verts_in_dod,               \* self._verts_in_dod
    verts_in_dod_brute_force,   \* self._verts_in_dod_brute_force
    M, c_0, B_2,                \* self._M, self._c_0, self._B_2
    sorted_ind,                 \* self._sorted_ind
    mismatch,                   \* the mismatch list of set_condition
    pc,                         \* position inside set_condition
    loop_i,                     \* loop index of _run_dod_recursive_search
    stack,                      \* the active _calc_dod calls, innermost last
    calls,                      \* completed set_condition calls
    scan_count                  \* history: per vertex, how often the scan body of
                                \* _calc_dod was entered in the current search

ssVars == <<vertices, dod_array, dod_list, dod_is_calculated, verts_in_dod,
            verts_in_dod_brute_force, M, c_0, B_2, sorted_ind, mismatch, pc,
            loop_i, stack, calls, scan_count>>

VARIABLES
    mesh,       \* the Mesh the VortexRingSolver was built on
    solver,     \* the fields of the VortexRingSolver instance
    ret,        \* the values the last solve call returned
    last_op     \* the last operation called on the solver

vrVars == <<mesh, solver, ret, last_op>>

vars == <<ssVars, vrVars>>

NoDeps == [v \in Verts |-> [u \in Verts |-> FALSE]]

\* SupersonicSolver.__init__ on a mesh whose vertex objects are fresh; no
\* VortexRingSolver exists while the supersonic solver is studied
SupersonicInit ==
    /\ mesh = <<>> /\ solver = <<>> /\ ret = <<>> /\ last_op = "none"
    /\ vertices \in [Verts -> Points]
    /\ dod_array = NoDeps
    /\ dod_list = [v \in Verts |-> <<>>]
    /\ dod_is_calculated = [v \in Verts |-> FALSE]
    /\ verts_in_dod = NoDeps
    /\ verts_in_dod_brute_force = NoDeps
    /\ M = RZero /\ c_0 = <<0, 0, 0>> /\ B_2 = RZero
    /\ sorted_ind = <<>>
    /\ mismatch = {}
    /\ pc = "idle"
    /\ loop_i = 0
    /\ stack = <<>>
    /\ calls = 0
    /\ scan_count = [v \in Verts |-> 0]

(***************************************************************************)
(* The Mach cone predicates.                                               *)
(***************************************************************************)
\* the cone test with B^2 on the axial side: B^2 x_c^2 >= r_c^2
InConeInverted(r, c, B2) ==
    LET x_c == inner(r, c)
        r_c == VSub(r, VScale(x_c, c))
    IN  RGeq(RMul(B2, RInt(x_c * x_c)), RInt(inner(r_c, r_c)))

\* x_c*x_c >= self._B_2*inner(r_c, r_c) for the displacement r
InCone(r, c, B2) ==
    LET x_c == inner(r, c)
        r_c == VSub(r, VScale(x_c, c))
    IN  RGeq(RInt(x_c * x_c), RMul(B2, RInt(inner(r_c, r_c))))

\* _in_dod_upstream: r1 is taken to be upstream of r0, only the cone is tested
in_dod_upstream(r0, r1, c, B2) == InCone(VSub(r1, r0), c, B2)

\* _in_dod: r1 is strictly upstream of r0 and inside the cone
in_dod(r0, r1, c, B2) ==
    /\ inner(VSub(r1, r0), c) > 0
    /\ InCone(VSub(r1, r0), c, B2)

\* np.argsort(x_c): any order of the vertices with x_c ascending (the default
\* sort kind is not stable, equal keys may come out in either order)
ArgSorts(vs, c) ==
    {p \in Perms : \A a, b \in Verts :
        a < b => inner(vs[p[a]], c) <= inner(vs[p[b]], c)}

(***************************************************************************)
(* SupersonicSolver.set_condition, step by step.                           *)
(*   pc = "idle"        no set_condition call is running                   *)
(*   pc = "recursive"   inside _run_dod_recursive_search                   *)
(*   pc = "brute_force" about to run _run_dod_brute_force_search           *)
(*   pc = "check"       about to compare the two searches                  *)
(* A frame of stack is one active call _calc_dod(ind, i): j is its loop    *)
(* index and phase its position: "enter" before the memo test, "scan" at   *)
(* the head of the loop over j, "merge" after the recursive call of        *)
(* iteration j.                                                            *)
(***************************************************************************)
Frame(ind, i) == [ind |-> ind, i |-> i, j |-> i + 1, phase |-> "enter"]

Top == stack[Len(stack)]
Pop == SubSeq(stack, 1, Len(stack) - 1)
SetTop(f) == [stack EXCEPT ![Len(stack)] = f]

\* the compressibility direction of set_condition
CompressibilityDirection(alpha, beta) ==
    <<Cos(alpha) * Cos(beta), Sin(beta), Sin(alpha) * Cos(beta)>>

\* "Reset domains of dependence": what set_condition clears
ResetDod ==
    /\ dod_list' = [v \in Verts |-> <<>>]
    /\ dod_array' = NoDeps
    /\ UNCHANGED dod_is_calculated

\* set_condition up to the sort of _run_dod_recursive_search
SetCondition(Mk, alpha, beta) ==
    /\ pc = "idle"
    /\ calls < MaxCalls
    /\ M' = Rat(Mk[1], Mk[2])
    /\ c_0' = CompressibilityDirection(alpha, beta)
    /\ B_2' = RSub(RMul(M', M'), ROne)
    /\ ResetDod
    /\ sorted_ind' \in ArgSorts(vertices, c_0')
    /\ loop_i' = 1
    /\ stack' = <<>>
    /\ pc' = "recursive"
    /\ UNCHANGED vrVars
    /\ UNCHANGED <<vertices, verts_in_dod, verts_in_dod_brute_force, mismatch, calls>>
    /\ scan_count' = [v \in Verts |-> 0]

\* for i, vert_ind in enumerate(self._sorted_ind): self._calc_dod(vert_ind, i)
RunDodRecursiveSearchCall ==
    /\ pc = "recursive"
    /\ stack = <<>>
    /\ loop_i <= N_vert
    /\ stack' = <<Frame(sorted_ind[loop_i], loop_i)>>
    /\ loop_i' = loop_i + 1
    /\ UNCHANGED vrVars
    /\ UNCHANGED <<vertices, dod_array, dod_list, dod_is_calculated, verts_in_dod,
                   verts_in_dod_brute_force, M, c_0, B_2, sorted_ind, mismatch, pc, calls>>
    /\ UNCHANGED scan_count

\* the loop of _run_dod_recursive_search is over
RunDodRecursiveSearchReturn ==
    /\ pc = "recursive"
    /\ stack = <<>>
    /\ loop_i > N_vert
    /\ pc' = "brute_force"
    /\ UNCHANGED vrVars
    /\ UNCHANGED <<vertices, dod_array, dod_list, dod_is_calculated, verts_in_dod,
                   verts_in_dod_brute_force, M, c_0, B_2, sorted_ind, mismatch,
                   loop_i, stack, calls>>
    /\ UNCHANGED scan_count

\* _calc_dod: "if not self._dod_is_calculated[ind]" fails, the call returns
CalcDodMemo ==
    /\ pc = "recursive"
    /\ stack # <<>>
    /\ Top.phase = "enter"
    /\ dod_is_calculated[Top.ind]
    /\ stack' = Pop
    /\ UNCHANGED vrVars
    /\ UNCHANGED <<vertices, dod_array, dod_list, dod_is_calculated, verts_in_dod,
                   verts_in_dod_brute_force, M, c_0, B_2, sorted_ind, mismatch, pc,
                   loop_i, calls>>
    /\ UNCHANGED scan_count

\* _calc_dod: the vertex is not calculated yet, the scan begins at j = i+1
CalcDodBegin ==
    /\ pc = "recursive"
    /\ stack # <<>>
    /\ Top.phase = "enter"
    /\ ~dod_is_calculated[Top.ind]
    /\ stack' = SetTop([Top EXCEPT !.phase = "scan"])
    /\ UNCHANGED vrVars
    /\ UNCHANGED <<vertices, dod_array, dod_list, dod_is_calculated, verts_in_dod,
                   verts_in_dod_brute_force, M, c_0, B_2, sorted_ind, mismatch, pc,
                   loop_i, calls>>
    /\ scan_count' = [scan_count EXCEPT ![Top.ind] = @ + 1]

\* upstream_ind = self._sorted_ind[j]
UpstreamInd(s, j) == s[j]

\* "Add to dod": dod_array[upstream_ind] = True on the vertex object ind
AddToDodSwapped(arr, ind, upstream_ind) == [arr EXCEPT ![upstream_ind][ind] = TRUE]
AddToDod(arr, ind, upstream_ind) == [arr EXCEPT ![ind][upstream_ind] = TRUE]

\* the innermost call is at the head of an iteration of its loop over j
AtScanHead ==
    /\ pc = "recursive"
    /\ stack # <<>>
    /\ Top.phase = "scan"
    /\ Top.j <= N_vert

\* one iteration of "for j in range(i+1, self._N_vert)" up to the recursive call
CalcDodScan ==
    /\ AtScanHead
    /\ LET ind == Top.ind
           upstream_ind == UpstreamInd(sorted_ind, Top.j)
           add == /\ ~dod_array[ind][upstream_ind]
                  /\ in_dod_upstream(vertices[ind], vertices[upstream_ind], c_0, B_2)
       IN  /\ dod_array' = IF add THEN AddToDod(dod_array, ind, upstream_ind)
                           ELSE dod_array
           /\ dod_list' = IF add THEN [dod_list EXCEPT ![ind] = Append(@, upstream_ind)]
                          ELSE dod_list
           /\ stack' = IF add THEN Append(SetTop([Top EXCEPT !.phase = "merge"]),
                                          Frame(upstream_ind, Top.j))
                       ELSE SetTop([Top EXCEPT !.j = @ + 1])
    /\ UNCHANGED vrVars
    /\ UNCHANGED <<vertices, dod_is_calculated, verts_in_dod, verts_in_dod_brute_force,
                   M, c_0, B_2, sorted_ind, mismatch, pc, loop_i, calls>>
    /\ UNCHANGED scan_count

\* "Update current dod": the row and list of a vertex after the points of
\* upstream_list not yet in the row are added, in order
RECURSIVE UpdateCurrentDod(_, _, _)
UpdateCurrentDod(row, list, upstream_list) ==
    IF upstream_list = <<>> THEN [row |-> row, list |-> list]
    ELSE LET upstream_point == Head(upstream_list)
         IN  IF ~row[upstream_point]
             THEN UpdateCurrentDod([row EXCEPT ![upstream_point] = TRUE],
                                   Append(list, upstream_point), Tail(upstream_list))
             ELSE UpdateCurrentDod(row, list, Tail(upstream_list))

\* the recursive call of iteration j has returned: merge and go on with j+1
CalcDodMerge ==
    /\ pc = "recursive"
    /\ stack # <<>>
    /\ Top.phase = "merge"
    /\ LET ind == Top.ind
           upstream_ind == UpstreamInd(sorted_ind, Top.j)
           upd == UpdateCurrentDod(dod_array[ind], dod_list[ind], dod_list[upstream_ind])
       IN  /\ dod_array' = [dod_array EXCEPT ![ind] = upd.row]
           /\ dod_list' = [dod_list EXCEPT ![ind] = upd.list]
    /\ stack' = SetTop([Top EXCEPT !.j = @ + 1, !.phase = "scan"])
    /\ UNCHANGED vrVars
    /\ UNCHANGED <<vertices, dod_is_calculated, verts_in_dod, verts_in_dod_brute_force,
                   M, c_0, B_2, sorted_ind, mismatch, pc, loop_i, calls>>
    /\ UNCHANGED scan_count

\* the loop over j is over and the call returns without storing the flag
CalcDodDoneNoFlag ==
    /\ pc = "recursive"
    /\ stack # <<>>
    /\ Top.phase = "scan"
    /\ Top.j > N_vert
    /\ stack' = Pop
    /\ UNCHANGED vrVars
    /\ UNCHANGED <<vertices, dod_array, dod_list, dod_is_calculated, verts_in_dod,
                   verts_in_dod_brute_force, M, c_0, B_2, sorted_ind, mismatch, pc,
                   loop_i, calls, scan_count>>

\* the loop over j is over: self._dod_is_calculated[ind] = True, return
CalcDodDone ==
    /\ pc = "recursive"
    /\ stack # <<>>
    /\ Top.phase = "scan"
    /\ Top.j > N_vert
    /\ dod_is_calculated' = [dod_is_calculated EXCEPT ![Top.ind] = TRUE]
    /\ stack' = Pop
    /\ UNCHANGED vrVars
    /\ UNCHANGED <<vertices, dod_array, dod_list, verts_in_dod, verts_in_dod_brute_force,
                   M, c_0, B_2, sorted_ind, mismatch, pc, loop_i, calls>>
    /\ UNCHANGED scan_count

\* _run_dod_brute_force_search
RunDodBruteForceSearch ==
    /\ pc = "brute_force"
    /\ verts_in_dod_brute_force' =
           [i \in Verts |-> [j \in Verts |-> in_dod(vertices[i], vertices[j], c_0, B_2)]]
    /\ pc' = "check"
    /\ UNCHANGED vrVars
    /\ UNCHANGED <<vertices, dod_array, dod_list, dod_is_calculated, verts_in_dod,
                   M, c_0, B_2, sorted_ind, mismatch, loop_i, stack, calls>>
    /\ UNCHANGED scan_count

\* "Check dod searches got the same result": the end of set_condition
CheckSearches ==
    /\ pc = "check"
    /\ verts_in_dod' = [i \in Verts |-> dod_array[i]]
    /\ mismatch' = {ij \in Verts \X Verts :
                       verts_in_dod'[ij[1]][ij[2]] # verts_in_dod_brute_force[ij[1]][ij[2]]}
    /\ pc' = "idle"
    /\ calls' = calls + 1
    /\ UNCHANGED vrVars
    /\ UNCHANGED <<vertices, dod_array, dod_list, dod_is_calculated,
                   verts_in_dod_brute_force, M, c_0, B_2, sorted_ind, loop_i, stack>>
    /\ UNCHANGED scan_count

SupersonicNext ==
    \/ \E Mk \in Machs, alpha \in Alphas, beta \in Betas : SetCondition(Mk, alpha, beta)
    \/ RunDodRecursiveSearchCall
    \/ RunDodRecursiveSearchReturn
    \/ CalcDodMemo
    \/ CalcDodBegin
    \/ CalcDodScan
    \/ CalcDodMerge
    \/ CalcDodDone
    \/ RunDodBruteForceSearch
    \/ CheckSearches

SpecSupersonic == SupersonicInit /\ [][SupersonicNext]_vars

\* the statements of _run_dod_recursive_search and _calc_dod other than the
\* loop iteration CalcDodScan, which can run whenever AtScanHead holds
SearchStepOffScan ==
    \/ RunDodRecursiveSearchCall
    \/ RunDodRecursiveSearchReturn
    \/ CalcDodMemo
    \/ CalcDodBegin
    \/ CalcDodMerge
    \/ CalcDodDone

(***************************************************************************)
(* The recursive search as a freshly constructed solver runs it: the same  *)
(* _calc_dod, evaluated as a function from empty dependency sets and       *)
(* cleared flags.  st = [array, list, calculated].                         *)
(***************************************************************************)
FreshState ==
    [array |-> NoDeps, list |-> [v \in Verts |-> <<>>],
     calculated |-> [v \in Verts |-> FALSE]]

RECURSIVE FreshCalcDod(_, _, _), FreshScan(_, _, _)
FreshCalcDod(st, ind, i) ==
    IF st.calculated[ind] THEN st
    ELSE [FreshScan(st, ind, i + 1) EXCEPT !.calculated[ind] = TRUE]

FreshScan(st, ind, j) ==
    IF j > N_vert THEN st
    ELSE LET upstream_ind == UpstreamInd(sorted_ind, j)
         IN  IF /\ ~st.array[ind][upstream_ind]
                /\ in_dod_upstream(vertices[ind], vertices[upstream_ind], c_0, B_2)
             THEN LET s1 == [st EXCEPT !.array = AddToDod(@, ind, upstream_ind),
                                       !.list[ind] = Append(@, upstream_ind)]
                      s2 == FreshCalcDod(s1, upstream_ind, j)
                      upd == UpdateCurrentDod(s2.array[ind], s2.list[ind],
                                              s2.list[upstream_ind])
                  IN  FreshScan([s2 EXCEPT !.array[ind] = upd.row,
                                           !.list[ind] = upd.list], ind, j + 1)
             ELSE FreshScan(st, ind, j + 1)

RECURSIVE FreshSearch(_, _)
FreshSearch(st, i) ==
    IF i > N_vert THEN st
    ELSE FreshSearch(FreshCalcDod(st, sorted_ind[i], i), i + 1)

\* the dependency sets a fresh solver computes for the current condition
FreshSolverDod == FreshSearch(FreshState, 1).array

(***************************************************************************)
(* Claims about the DoD search.                                            *)
(***************************************************************************)
DodSet(v) == {u \in Verts : dod_array[v][u]}
BruteForceSet(v) == {u \in Verts : verts_in_dod_brute_force[v][u]}
SetConditionDone == pc = "idle" /\ calls >= 1

\* C1: after set_condition completes, the dependency set of every vertex from
\* the recursive memoized search equals, as a set, the one from the brute-force
\* search, for any vertex geometry.  (Stated as claimed; the code violates it.)
C1_SearchesAgree == SetConditionDone => \A v \in Verts : DodSet(v) = BruteForceSet(v)

\* C2: after every set_condition call, the k-th included, each vertex's
\* dependency set equals the set a freshly constructed solver computes for that
\* condition alone.  (Stated as claimed; the code violates it.)
C2_RebuiltEveryCall == SetConditionDone => dod_array = FreshSolverDod

Closed == \A v, u, w \in Verts : (dod_array[u][w] /\ dod_array[v][u]) => dod_array[v][w]

\* C3: once the recursive search has finished, the per-vertex dependency
\* sets are transitively closed: w in dod(u) and u in dod(v) give w in dod(v).
C3_TransitivelyClosed == (pc # "recursive") => Closed

\* a finished first search in which a chain v -> u -> w of three vertices exists
C3_Witness ==
    /\ pc = "idle" /\ calls = 1
    /\ \E v, u, w \in Verts :
          /\ v # u /\ u # w /\ v # w
          /\ dod_array[v][u] /\ dod_array[u][w] /\ dod_array[v][w]

\* the brute-force search of the current condition has stored its results
BruteForceDone == pc = "check" \/ SetConditionDone

\* M = 1.6, alpha = 0, beta = 0: the axis is +x and B^2 = 1.56
Mach16Aligned == M = Rat(8, 5) /\ c_0 = <<1, 0, 0>> /\ B_2 = Rat(39, 25)

\* axial offset and squared radial distance of q from p for the axis +x
AxialOffset(p, q) == q[1] - p[1]
RadialDistance2(p, q) == (q[2] - p[2]) * (q[2] - p[2]) + (q[3] - p[3]) * (q[3] - p[3])

\* C11 as claimed: with M = 1.6, alpha = beta = 0, _in_dod reports q dependent
\* whenever its axial offset x is positive and its radial distance is within
\* B*x (r^2 <= B^2 x^2), and not dependent whenever the radial distance exceeds
\* B*x.  (The original statement; the code violates it.)
C11_WithinBTimesAxial ==
    (BruteForceDone /\ Mach16Aligned) =>
        \A i, j \in Verts :
            LET x == AxialOffset(vertices[i], vertices[j])
                r2 == RadialDistance2(vertices[i], vertices[j])
            IN  x > 0 =>
                   (verts_in_dod_brute_force[i][j]
                       <=> RGeq(RMul(B_2, RInt(x * x)), RInt(r2)))

\* C11 amended: with M = 1.6, alpha = beta = 0 (B^2 = 1.56), _in_dod reports a
\* candidate q with positive axial offset x dependent whenever B times its
\* radial distance is within x (B^2 r^2 <= x^2, i.e. r <= x/B), and not
\* dependent whenever B times the radial distance exceeds x.
C11_MachConeTest ==
    (BruteForceDone /\ Mach16Aligned) =>
        \A i, j \in Verts :
            LET x == AxialOffset(vertices[i], vertices[j])
                r2 == RadialDistance2(vertices[i], vertices[j])
            IN  x > 0 =>
                   (verts_in_dod_brute_force[i][j]
                       <=> RGeq(RInt(x * x), RMul(B_2, RInt(r2))))

\* the brute-force search at M = 1.6 has tested an off-axis candidate inside
\* the cone and a candidate with positive axial offset outside the cone
C11_Witness ==
    /\ BruteForceDone /\ Mach16Aligned
    /\ \E i, j, k \in Verts :
          /\ AxialOffset(vertices[i], vertices[j]) > 0
          /\ RadialDistance2(vertices[i], vertices[j]) > 0
          /\ verts_in_dod_brute_force[i][j]
          /\ AxialOffset(vertices[i], vertices[k]) > 0
          /\ ~verts_in_dod_brute_force[i][k]

\* the first search of a freshly constructed solver
FirstSearchRunning == calls = 0 /\ pc = "recursive"
FirstSearchOver == calls = 0 /\ pc = "brute_force"

\* a scan of vertex v is in progress in some active call
Scanning(v) ==
    \E k \in 1..Len(stack) : stack[k].ind = v /\ stack[k].phase \in {"scan", "merge"}

\* position of the k-th active call's vertex in the sort order
CallsGoUpstream ==
    /\ \A k \in 1..Len(stack) : sorted_ind[stack[k].i] = stack[k].ind
    /\ \A k \in 2..Len(stack) : stack[k].i > stack[k - 1].i

SearchStepsSound ==
    /\ \A v \in Verts : scan_count[v] <= 1
    /\ \A v \in Verts : dod_is_calculated[v] => (scan_count[v] = 1 /\ ~Scanning(v))
    /\ CallsGoUpstream
    /\ Len(stack) <= N_vert

SearchComplete ==
    \A v \in Verts : dod_is_calculated[v] /\ scan_count[v] = 1

\* how far an active call has got: 0 before the memo test, then odd at the
\* head of iteration j and even after the recursive call of iteration j
FrameProgress(f) ==
    IF f.phase = "enter" THEN 0
    ELSE IF f.phase = "scan" THEN 2 * (f.j - f.i) - 1
    ELSE 2 * (f.j - f.i)

\* the value standing for "no call at this depth", above every FrameProgress
NoFrame == 2 * (N_vert + 1) + 1

\* the position of the search, read as a number whose digits (most significant
\* first) are the outer loop index and the progress of each active call
RECURSIVE ProgressDigits(_)
ProgressDigits(k) ==
    IF k > N_vert THEN 0
    ELSE (IF k <= Len(stack) THEN FrameProgress(stack[k]) ELSE NoFrame)
             * (NoFrame + 1) ^ (N_vert - k)
         + ProgressDigits(k + 1)

SearchProgress == loop_i * (NoFrame + 1) ^ N_vert + ProgressDigits(1)

\* C12: during the recursive search of a freshly constructed solver the scan
\* body of _calc_dod runs at most once per vertex while the search runs and
\* exactly once by its end, a vertex is flagged computed only when its scan has
\* run and is no longer in progress, every active recursive call is at a
\* position strictly later in the sort order than its caller's, and the
\* recursion depth never exceeds the vertex count.  The search terminates:
\* while it runs a next step is always possible, every step strictly advances
\* the bounded SearchProgress, and at its end every vertex is flagged computed.
C12_SearchTerminates ==
    /\ [](FirstSearchRunning =>
             (SearchStepsSound /\ (AtScanHead \/ ENABLED SearchStepOffScan)))
    /\ [](FirstSearchOver => SearchComplete)
    /\ [][(FirstSearchRunning /\ pc' = "recursive")
             => (SearchProgress' > SearchProgress
                 /\ SearchProgress' < (N_vert + 2) * (NoFrame + 1) ^ N_vert)]_vars

\* a finished first search that recursed to the full depth: a chain of three
\* vertices, each in the next one's scan, with every vertex flagged
C12_Witness ==
    /\ FirstSearchOver /\ SearchComplete
    /\ \E v, u, w \in Verts :
          /\ v # u /\ u # w /\ v # w
          /\ dod_list[v] # <<>> /\ Head(dod_list[v]) = u
          /\ dod_list[u] # <<>> /\ Head(dod_list[u]) = w

(***************************************************************************)
(* VortexRingSolver: arithmetic on vectors of rationals.                   *)
(***************************************************************************)
RVZero == <<RZero, RZero, RZero>>
RVAdd(a, b) == <<RAdd(a[1], b[1]), RAdd(a[2], b[2]), RAdd(a[3], b[3])>>
\* the integer vector a times the rational r
RVScale(r, a) == <<RMul(r, RInt(a[1])), RMul(r, RInt(a[2])), RMul(r, RInt(a[3]))>>
RVNorm2(a) == RAdd(RAdd(RMul(a[1], a[1]), RMul(a[2], a[2])), RMul(a[3], a[3]))
VAdd(a, b) == <<a[1] + b[1], a[2] + b[2], a[3] + b[3]>>
VNeg(a) == <<-a[1], -a[2], -a[3]>>
Cross(a, b) ==
    <<a[2] * b[3] - a[3] * b[2], a[3] * b[1] - a[1] * b[3], a[1] * b[2] - a[2] * b[1]>>

RECURSIVE RVSum(_, _)
RVSum(f, k) == IF k = 0 THEN RVZero ELSE RVAdd(RVSum(f, k - 1), f[k])

RECURSIVE ISum(_, _)
ISum(f, k) == IF k = 0 THEN 0 ELSE ISum(f, k - 1) + f[k]

\* pp_math.norm of an integer vector whose length is an integer
norm(a) == CHOOSE k \in 0..inner(a, a) : k * k = inner(a, a)

(***************************************************************************)
(* VortexRingSolver: inputs.                                               *)
(***************************************************************************)
\* the meshes of the model have one or two panels
PanelCounts == {1, 2}
\* unit normals of the panels
Normals == {<<0, 0, 1>>, <<1, 0, 0>>}
\* values of panel.get_ring_influence at a control point
RingInfluences == {<<0, 0, 1>>, <<1, 0, -1>>}
\* mesh.dA: all panels of area 1, or panel k of area k
AreaLayouts(N) == {[k \in 1..N |-> 1], [k \in 1..N |-> k]}
\* the control point of panel k
ControlPoints(N) == [k \in 1..N |-> <<k, 0, 0>>]
\* Kutta edges: the two panels of the edge and a point of the edge
EdgeA == [panel_indices |-> <<1, 2>>, vertex |-> <<0, 1, 0>>]
EdgeB == [panel_indices |-> <<2, 1>>, vertex |-> <<0, 0, 1>>]
\* mesh.kutta_edges: none, one edge, or two edges in either order
KuttaEdgeLists(N) ==
    IF N < 2 THEN {<<>>}
    ELSE {<<>>, <<EdgeA>>, <<EdgeA, EdgeB>>, <<EdgeB, EdgeA>>}
\* kwargs of set_condition and solve
Conditions ==
    {[V_inf |-> <<2, 0, 0>>, rho |-> 1],
     [V_inf |-> <<2, 0, 0>>, rho |-> 2],
     [V_inf |-> <<0, 0, -1>>, rho |-> 2]}
Methods == {"default", "svd"}

MeshesOf(N) ==
    {[N |-> N, cp |-> ControlPoints(N), n |-> nn, dA |-> a, ring_influence |-> ri,
      kutta_edges |-> e] :
        nn \in [1..N -> Normals], a \in AreaLayouts(N),
        ri \in [1..N -> [1..N -> RingInfluences]], e \in KuttaEdgeLists(N)}
Meshes == UNION {MeshesOf(N) : N \in PanelCounts}

(***************************************************************************)
(* VortexRingSolver.__init__                                               *)
(***************************************************************************)
\* vec_inner(matrix, self._n[np.newaxis,:]): entry [i][k] is matrix[i][k] . n[k]
ProjectOnNormals(matrix, n, N) ==
    [i \in 1..N |-> [k \in 1..N |-> inner(matrix[i][k], n[k])]]

ZeroMatrix3(N) == [i \in 1..N |-> [k \in 1..N |-> <<0, 0, 0>>]]

\* the fields of a new solver; the fields set_condition and solve assign first
\* (has_condition and has_solution tell whether they have) start at zero
NewSolver(m) ==
    [N_panels |-> m.N,
     N_edges |-> Len(m.kutta_edges),
     cp |-> m.cp, n |-> m.n, dA |-> m.dA,
     edge_panel_ind |-> [e \in 1..Len(m.kutta_edges) |-> m.kutta_edges[e].panel_indices],
     panel_influence_matrix |-> m.ring_influence,
     A_panels |-> ProjectOnNormals(m.ring_influence, m.n, m.N),
     has_condition |-> FALSE,
     v_inf |-> <<0, 0, 0>>, V_inf |-> 0, u_inf |-> <<0, 0, 0>>, V_inf_2 |-> 0,
     rho |-> 0, b |-> [k \in 1..m.N |-> 0],
     has_solution |-> FALSE,
     vortex_influence_matrix |-> ZeroMatrix3(m.N),
     A_vortices |-> [i \in 1..m.N |-> [k \in 1..m.N |-> 0]],
     A |-> <<>>, b_vec |-> <<>>,
     gamma |-> [k \in 1..m.N |-> RZero],
     v |-> [k \in 1..m.N |-> RVZero],
     V_2 |-> [k \in 1..m.N |-> RZero],
     C_P |-> [k \in 1..m.N |-> RZero],
     dF |-> [k \in 1..m.N |-> RVZero],
     F |-> RVZero]

(***************************************************************************)
(* VortexRingSolver.set_condition                                          *)
(***************************************************************************)
set_condition(s, V_inf, rho) ==
    [s EXCEPT !.has_condition = TRUE,
              !.v_inf = V_inf,
              !.V_inf = norm(V_inf),
              !.u_inf = <<V_inf[1] \div norm(V_inf), V_inf[2] \div norm(V_inf),
                          V_inf[3] \div norm(V_inf)>>,
              !.V_inf_2 = norm(V_inf) * norm(V_inf),
              !.rho = rho,
              !.b = [k \in 1..s.N_panels |-> -inner(V_inf, s.n[k])]]

(***************************************************************************)
(* VortexRingSolver.solve                                                  *)
(***************************************************************************)
\* edge.get_vortex_influence(cp, u_inf): the velocity the trailing legs of the
\* edge, aligned with u_inf, induce at each control point
get_vortex_influence(edge, cp, u_inf) ==
    [k \in DOMAIN cp |-> Cross(u_inf, VSub(cp[k], edge.vertex))]

\* self._vortex_influence_matrix[p_ind[0],:] = V; ...[p_ind[1],:] = V
StoreEdgeInfluence(matrix, p_ind, V) ==
    [matrix EXCEPT ![p_ind[1]] = V, ![p_ind[2]] = V]

\* for edge in self._mesh.kutta_edges: ... over the edges left, in order
RECURSIVE VortexInfluenceLoop(_, _, _, _)
VortexInfluenceLoop(matrix, edges, cp, u_inf) ==
    IF edges = <<>> THEN matrix
    ELSE LET V == [k \in DOMAIN cp |->
                      VNeg(get_vortex_influence(Head(edges), cp, u_inf)[k])]
         IN  VortexInfluenceLoop(
                 StoreEdgeInfluence(matrix, Head(edges).panel_indices, V),
                 Tail(edges), cp, u_inf)

\* self._A_vortices of a lifting solve
AVortices(s) == ProjectOnNormals(s.panel_influence_matrix, s.n, s.N_panels)

\* the lifting system: A = self._A_panels+self._A_vortices is a new array and
\* leaves self._A_panels as it was; b = np.copy(self._b)
LiftingSystemInPlace(s, A_vortices) ==
    LET sum == [i \in 1..s.N_panels |->
                   [k \in 1..s.N_panels |-> s.A_panels[i][k] + A_vortices[i][k]]]
    IN  [A |-> sum, b |-> s.b, A_panels |-> sum]
LiftingSystem(s, A_vortices) ==
    [A |-> [i \in 1..s.N_panels |->
               [k \in 1..s.N_panels |-> s.A_panels[i][k] + A_vortices[i][k]]],
     b |-> s.b,
     A_panels |-> s.A_panels]

\* the nonlifting system: A_panels with a row of ones appended, b with a 0
NonliftingSystemNoClosure(s) ==
    [A |-> Append(s.A_panels, [k \in 1..s.N_panels |-> 0]),
     b |-> Append(s.b, 0),
     A_panels |-> s.A_panels]
NonliftingSystem(s) ==
    [A |-> Append(s.A_panels, [k \in 1..s.N_panels |-> 1]),
     b |-> Append(s.b, 0),
     A_panels |-> s.A_panels]

\* np.linalg.lstsq(A, b, rcond=None)[0] for one or two unknowns: the least
\* squares solution of least norm, A+ b.  With G = A^T A and h = A^T b it is
\* G^-1 h when G is regular, h / trace(G) when A has rank one, 0 when A = 0.
lstsq(A, b, N) ==
    LET m == Len(A)
        G(p, q) == ISum([r \in 1..m |-> A[r][p] * A[r][q]], m)
        h(p) == ISum([r \in 1..m |-> A[r][p] * b[r]], m)
    IN  IF N = 1
        THEN IF G(1, 1) = 0 THEN <<RZero>> ELSE <<Rat(h(1), G(1, 1))>>
        ELSE LET det == G(1, 1) * G(2, 2) - G(1, 2) * G(1, 2)
                 tr == G(1, 1) + G(2, 2)
             IN  IF det # 0
                 THEN <<Rat(G(2, 2) * h(1) - G(1, 2) * h(2), det),
                        Rat(G(1, 1) * h(2) - G(1, 2) * h(1), det)>>
                 ELSE IF tr # 0 THEN <<Rat(h(1), tr), Rat(h(2), tr)>>
                 ELSE <<RZero, RZero>>

\* np.sum(matrix*self._gamma[:,np.newaxis,np.newaxis], axis=0)
InducedVelocity(matrix, gamma, N) ==
    [k \in 1..N |-> RVSum([i \in 1..N |-> RVScale(gamma[i], matrix[i][k])], N)]

\* "if lifting: self._v += ..." : what the horseshoe vortices add to self._v
VortexVelocityAlways(lifting, matrix, gamma, N) == InducedVelocity(matrix, gamma, N)
VortexVelocity(lifting, matrix, gamma, N) ==
    IF lifting THEN InducedVelocity(matrix, gamma, N) ELSE [k \in 1..N |-> RVZero]

solve(s, lifting) ==
    LET N == s.N_panels
        vim == IF lifting
               THEN VortexInfluenceLoop(ZeroMatrix3(N), mesh.kutta_edges, s.cp, s.u_inf)
               ELSE s.vortex_influence_matrix
        A_vortices == IF lifting THEN AVortices(s) ELSE s.A_vortices
        sys == IF lifting THEN LiftingSystem(s, A_vortices) ELSE NonliftingSystem(s)
        gamma == lstsq(sys.A, sys.b, N)
        ring == InducedVelocity(s.panel_influence_matrix, gamma, N)
        vort == VortexVelocity(lifting, vim, gamma, N)
        v == [k \in 1..N |-> RVAdd(ring[k], vort[k])]
        V_2 == [k \in 1..N |-> RVNorm2(v[k])]
        C_P == [k \in 1..N |-> RSub(ROne, RDiv(V_2[k], RInt(s.V_inf_2)))]
        dF == [k \in 1..N |->
                  RVScale(RMul(RInt(s.rho * s.V_inf_2), RMul(RInt(s.dA[k]), C_P[k])), s.n[k])]
    IN  [s EXCEPT !.has_solution = TRUE,
                  !.vortex_influence_matrix = vim,
                  !.A_vortices = A_vortices,
                  !.A_panels = sys.A_panels,
                  !.A = sys.A, !.b_vec = sys.b,
                  !.gamma = gamma, !.v = v, !.V_2 = V_2, !.C_P = C_P, !.dF = dF,
                  !.F = RVSum(dF, N)]

(***************************************************************************)
(* The operations on one VortexRingSolver.                                 *)
(***************************************************************************)
\* VortexRingSolver.__init__; no SupersonicSolver exists while the vortex
\* ring solver is studied
VortexRingInit ==
    /\ vertices = <<>> /\ dod_array = <<>> /\ dod_list = <<>>
    /\ dod_is_calculated = <<>> /\ verts_in_dod = <<>>
    /\ verts_in_dod_brute_force = <<>>
    /\ M = RZero /\ c_0 = <<0, 0, 0>> /\ B_2 = RZero
    /\ sorted_ind = <<>> /\ mismatch = {} /\ pc = "none"
    /\ loop_i = 0 /\ stack = <<>> /\ calls = 0 /\ scan_count = <<>>
    /\ mesh \in Meshes
    /\ solver = NewSolver(mesh)
    /\ ret = <<>>
    /\ last_op = [name |-> "init", lifting |-> FALSE, method |-> "default"]

VrSetCondition(V_inf, rho) ==
    /\ solver' = set_condition(solver, V_inf, rho)
    /\ last_op' = [name |-> "set_condition", lifting |-> FALSE, method |-> "default"]
    /\ UNCHANGED <<mesh, ret>>
    /\ UNCHANGED ssVars

\* solve reads self._b and self._V_inf_2, which set_condition creates
VrSolve(lifting, method) ==
    /\ solver.has_condition
    /\ solver' = solve(solver, lifting)
    /\ ret' = <<solver'.F>>
    /\ last_op' = [name |-> "solve", lifting |-> lifting, method |-> method]
    /\ UNCHANGED mesh
    /\ UNCHANGED ssVars

VortexRingNext ==
    \/ \E kwargs \in Conditions : VrSetCondition(kwargs.V_inf, kwargs.rho)
    \/ \E lifting \in BOOLEAN, method \in Methods : VrSolve(lifting, method)

SpecVortexRing == VortexRingInit /\ [][VortexRingNext]_vars

(***************************************************************************)
(* Claims about the vortex ring solver.                                    *)
(***************************************************************************)
Solved == last_op.name = "solve"
SolvedLifting == Solved /\ last_op.lifting
SolvedNonlifting == Solved /\ ~last_op.lifting
Panels == 1..solver.N_panels

\* C4: for a single flat panel whose plane contains the freestream
\* (V_inf . n = 0) a nonlifting solve gives zero circulation, pressure
\* coefficient 0 on the panel and a zero returned net force.  (Stated as
\* claimed; the code violates it.)
C4_AlignedPanelUnloaded ==
    (/\ SolvedNonlifting
     /\ solver.N_panels = 1
     /\ inner(solver.v_inf, solver.n[1]) = 0)
    => /\ solver.gamma = <<RZero>>
       /\ solver.C_P[1] = RZero
       /\ ret[1] = RVZero

\* C5: in the lifting case the matrix handed to the least-squares solve is
\* N x N and its entry for (source panel i, field panel k) is the sum of the
\* panel-ring influence and the horseshoe-vortex influence projected onto the
\* normal of panel k.  (Stated as claimed; the code violates it.)
C5_VortexInfluenceEntersA ==
    SolvedLifting =>
        /\ Len(solver.A) = solver.N_panels
        /\ \A i \in Panels :
              /\ Len(solver.A[i]) = solver.N_panels
              /\ \A k \in Panels :
                    solver.A[i][k] =
                        inner(VAdd(solver.panel_influence_matrix[i][k],
                                   solver.vortex_influence_matrix[i][k]), solver.n[k])

\* what the edges contribute to row p at control point k when every edge adds
\* its induced velocity to its first panel and subtracts it from its second
RECURSIVE AccumulatedInfluence(_, _, _)
AccumulatedInfluence(edges, p, k) ==
    IF edges = <<>> THEN <<0, 0, 0>>
    ELSE LET e == Head(edges)
             V == VNeg(get_vortex_influence(e, solver.cp, solver.u_inf)[k])
             sign == IF p = e.panel_indices[1] THEN 1
                     ELSE IF p = e.panel_indices[2] THEN -1 ELSE 0
         IN  VAdd(VScale(sign, V), AccumulatedInfluence(Tail(edges), p, k))

\* C6: after a lifting solve the row of every panel in the vortex influence
\* matrix is the sum over all Kutta edges bordering it of the edge's induced
\* velocity, with opposite signs for the two panels of an edge (either overall
\* sign convention).  (Stated as claimed; the code violates it.)
C6_EdgeInfluenceAccumulated ==
    SolvedLifting =>
        \E convention \in {1, -1} : \A p, k \in Panels :
            solver.vortex_influence_matrix[p][k] =
                VScale(convention, AccumulatedInfluence(mesh.kutta_edges, p, k))

\* C7: the nonlifting system has N+1 equations in N unknowns; its first N rows
\* and right-hand sides are the flow-tangency equations of the panels, its last
\* row has coefficient 1 for every circulation strength and right-hand side 0.
C7_NonliftingSystemShape ==
    SolvedNonlifting =>
        /\ Len(solver.A) = solver.N_panels + 1
        /\ Len(solver.b_vec) = solver.N_panels + 1
        /\ \A i \in 1..(solver.N_panels + 1) : Len(solver.A[i]) = solver.N_panels
        /\ \A i, k \in Panels :
              solver.A[i][k] = inner(solver.panel_influence_matrix[i][k], solver.n[k])
        /\ \A i \in Panels : solver.b_vec[i] = -inner(solver.v_inf, solver.n[i])
        /\ \A k \in Panels : solver.A[solver.N_panels + 1][k] = 1
        /\ solver.b_vec[solver.N_panels + 1] = 0

\* a nonlifting solve of two panels with a nonzero right-hand side
C7_Witness ==
    /\ SolvedNonlifting
    /\ solver.N_panels = 2
    /\ \E i \in Panels : solver.b_vec[i] # 0

\* the cross product of an integer vector with a vector of rationals
RCross(a, b) ==
    <<RSub(RMul(RInt(a[2]), b[3]), RMul(RInt(a[3]), b[2])),
      RSub(RMul(RInt(a[3]), b[1]), RMul(RInt(a[1]), b[3])),
      RSub(RMul(RInt(a[1]), b[2]), RMul(RInt(a[2]), b[1]))>>

\* the sum over the panels of (control point - reference point) x force
NetMoment(reference) ==
    RVSum([k \in Panels |-> RCross(VSub(solver.cp[k], reference), solver.dF[k])],
          solver.N_panels)

\* C8: solve returns two values, the net force and the net moment, the moment
\* being the sum over the panels of (control point - reference point) crossed
\* with the force on the panel.  (Stated as claimed; the code violates it.)
C8_ReturnsForceAndMoment ==
    Solved =>
        /\ Len(ret) = 2
        /\ ret[1] = solver.F
        /\ ret[2] = NetMoment(<<0, 0, 0>>)

SolutionState(s) == <<s.gamma, s.v, s.V_2, s.C_P, s.dF, s.F>>

\* the solver a fresh construction on the mesh and one set_condition give
FreshSolverWithCondition == set_condition(NewSolver(mesh), solver.v_inf, solver.rho)

\* C9: the solution state a solve call leaves, and the net force it returns,
\* are the ones a fresh solver on the same mesh gives for the most recent
\* condition and the same lifting flag: earlier solve calls and the method
\* argument have no influence.
C9_SolutionIndependentOfHistory ==
    Solved =>
        /\ SolutionState(solver) =
               SolutionState(solve(FreshSolverWithCondition, last_op.lifting))
        /\ ret = <<solve(FreshSolverWithCondition, last_op.lifting).F>>

\* a nonlifting solve with method='svd' after an earlier lifting solve whose
\* horseshoe vortex matrix is still stored, with a nonzero circulation
C9_Witness ==
    /\ SolvedNonlifting
    /\ last_op.method = "svd"
    /\ solver.vortex_influence_matrix # ZeroMatrix3(solver.N_panels)
    /\ \E k \in Panels : solver.gamma[k] # RZero

\* C10: the panel influence matrix and its normal projection are the ones the
\* constructor built, and the control points, normals and areas are the
\* mesh's, whatever set_condition and solve calls have been made.
C10_InfluenceMatrixUnchanged ==
    /\ solver.panel_influence_matrix = NewSolver(mesh).panel_influence_matrix
    /\ solver.A_panels = NewSolver(mesh).A_panels
    /\ solver.cp = mesh.cp
    /\ solver.n = mesh.n
    /\ solver.dA = mesh.dA

\* a set_condition after a lifting solve, with a nonzero panel projection
C10_Witness ==
    /\ last_op.name = "set_condition"
    /\ solver.has_solution
    /\ solver.A_vortices # [i \in Panels |-> [k \in Panels |-> 0]]

\* equation k of the solved system, for the circulations the solve found:
\* sum over m of A[k][m] * gamma[m] = b[k]
TangencyEquationHolds(k) ==
    LET lhs == RVSum([m \in Panels |->
                         <<RMul(RInt(solver.A[k][m]), solver.gamma[m]), RZero, RZero>>],
                     solver.N_panels)[1]
    IN  RGeq(lhs, RInt(solver.b_vec[k])) /\ RGeq(RInt(solver.b_vec[k]), lhs)

\* v_k . n_k for the reconstructed velocity of panel k
NormalVelocity(k) ==
    RAdd(RAdd(RMul(RInt(solver.n[k][1]), solver.v[k][1]),
              RMul(RInt(solver.n[k][2]), solver.v[k][2])),
         RMul(RInt(solver.n[k][3]), solver.v[k][3]))

\* in equation k the coefficient of gamma_m is influence[m, k] . n_k and the
\* right-hand side is -V_inf . n_k
TangencyCoefficients ==
    /\ \A k, m \in Panels :
          solver.A[k][m] = inner(solver.panel_influence_matrix[m][k], solver.n[k])
    /\ \A k \in Panels : solver.b_vec[k] = -inner(solver.v_inf, solver.n[k])

\* circulations that satisfy the N tangency equations exactly give a
\* reconstructed velocity with v_k . n_k = -V_inf . n_k on every panel
TangencyReconstructed ==
    (\A k \in Panels : TangencyEquationHolds(k)) =>
        \A k \in Panels :
            LET target == RInt(-inner(solver.v_inf, solver.n[k]))
            IN  RGeq(NormalVelocity(k), target) /\ RGeq(target, NormalVelocity(k))

\* C13: after a nonlifting solve, in equation k of the assembled system the
\* coefficient of gamma_m is the velocity a unit ring on panel m induces at
\* panel k's control point (influence entry [m, k]) projected on panel k's
\* normal, and the right-hand side is -V_inf . n_k; and whenever the
\* circulations satisfy the N tangency equations exactly, the reconstructed
\* velocity v_k = sum_m gamma_m * influence[m, k] has v_k . n_k = -V_inf . n_k
\* on every panel k.  (Stated as claimed; the code violates it.)
C13_TangencyConsistent ==
    SolvedNonlifting => (TangencyCoefficients /\ TangencyReconstructed)

====
